---- MODULE Spec2Model ----
(***************************************************************************)
(* Model of bowden_wack2_compensation.py: the tokenizer                    *)
(* (parse_gcode_line), the state tracker (Gcode.state), the compensation   *)
(* loop (read_gcode_file), and the serializer (Gcode.__str__) with the     *)
(* loop of main that writes the output file.                               *)
(*                                                                         *)
(* Text is a sequence of one-character strings, so that strip, split,      *)
(* startswith, int() and float() are computed and not assumed.             *)
(*                                                                         *)
(* Numbers are fixed point:                                                *)
(*   - X, Y, Z, F, S parameter values are whole numbers;                   *)
(*   - E parameter values are integer multiples of 1e-5 (E_SCALE per mm);  *)
(*   - curve values and the settling accumulator are integer multiples of  *)
(*     1e-8 (FINE per mm);                                                 *)
(*   - e_adjust_relative keeps the division by 180 exact: it is held as a  *)
(*     numerator over characteristic_length * FINE.                        *)
(* A float that is zero keeps its sign in Python (round() of a small        *)
(* negative number is -0.0, rendered "-0"): a Parameter carries that sign   *)
(* beside its number. Numbers written in the input are taken to be an int   *)
(* when zero and a float otherwise, as they are in every input line below.  *)
(* An optional value (Python None or a value) is a sequence of length at   *)
(* most one: None is << >>, the value v is << v >>.                        *)
(***************************************************************************)
EXTENDS Integers, Sequences, FiniteSets, TLC

\* ------------------------------------------------------------- option type

None == << >>

Some(v) == << v >>

Val(o) == o[1]

\* ------------------------------------------------------------------- text

Digits == {"0", "1", "2", "3", "4", "5", "6", "7", "8", "9"}

Letters ==
  {"A", "B", "C", "D", "E", "F", "G", "H", "I", "J", "K", "L", "M", "N", "O",
   "P", "Q", "R", "S", "T", "U", "V", "W", "X", "Y", "Z",
   "a", "b", "c", "d", "e", "f", "g", "h", "i", "j", "k", "l", "m", "n", "o",
   "p", "q", "r", "s", "t", "u", "v", "w", "x", "y", "z"}

Whitespace == {" ", "\t", "\n", "\r"}

DigitVal(c) ==
  CASE c = "0" -> 0 [] c = "1" -> 1 [] c = "2" -> 2 [] c = "3" -> 3
    [] c = "4" -> 4 [] c = "5" -> 5 [] c = "6" -> 6 [] c = "7" -> 7
    [] c = "8" -> 8 [] c = "9" -> 9

\* s[i..] (Python s[i-1:]); empty when i is past the end.
From(s, i) == SubSeq(s, i, Len(s))

\* str.startswith
StartsWith(s, p) == Len(s) >= Len(p) /\ SubSeq(s, 1, Len(p)) = p

RECURSIVE LStrip(_)
LStrip(s) ==
  IF s # << >> /\ Head(s) \in Whitespace THEN LStrip(Tail(s)) ELSE s

RECURSIVE RStrip(_)
RStrip(s) ==
  IF s # << >> /\ s[Len(s)] \in Whitespace
  THEN RStrip(SubSeq(s, 1, Len(s) - 1))
  ELSE s

\* str.strip()
Strip(s) == RStrip(LStrip(s))

\* str.replace(c, "")
RECURSIVE RemoveChar(_, _)
RemoveChar(s, c) ==
  IF s = << >> THEN << >>
  ELSE IF Head(s) = c THEN RemoveChar(Tail(s), c)
  ELSE << Head(s) >> \o RemoveChar(Tail(s), c)

\* Index of the first c in s, 0 when there is none.
RECURSIVE IndexOf(_, _, _)
IndexOf(s, c, i) ==
  IF i > Len(s) THEN 0
  ELSE IF s[i] = c THEN i
  ELSE IndexOf(s, c, i + 1)

\* str.split(";", 1): one part, or the text before and after the first ";".
SplitComment(s) ==
  LET i == IndexOf(s, ";", 1)
  IN  IF i = 0 THEN << s >>
      ELSE << SubSeq(s, 1, i - 1), From(s, i + 1) >>

\* str.split(): the maximal runs of non-whitespace characters.
RECURSIVE SplitWS(_, _, _)
SplitWS(s, cur, acc) ==
  IF s = << >>
  THEN IF cur = << >> THEN acc ELSE Append(acc, cur)
  ELSE IF Head(s) \in Whitespace
       THEN SplitWS(Tail(s), << >>, IF cur = << >> THEN acc ELSE Append(acc, cur))
       ELSE SplitWS(Tail(s), Append(cur, Head(s)), acc)

Split(s) == SplitWS(s, << >>, << >>)

AllDigits(s) == s # << >> /\ \A i \in 1..Len(s) : s[i] \in Digits

RECURSIVE DigitsVal(_, _)
DigitsVal(s, acc) ==
  IF s = << >> THEN acc ELSE DigitsVal(Tail(s), acc * 10 + DigitVal(Head(s)))

\* The text without a leading sign, and the sign.
Unsigned(s) == IF s # << >> /\ Head(s) \in {"+", "-"} THEN Tail(s) ELSE s

SignOf(s) == IF s # << >> /\ Head(s) = "-" THEN -1 ELSE 1

\* int(value) succeeds: an optional sign and one or more digits.
IsInt(s) == AllDigits(Unsigned(s))

\* float(value) succeeds (and int(value) did not): an optional sign, digits
\* with one decimal point and at least one digit.
IsFloat(s) ==
  LET u == Unsigned(s)
      i == IndexOf(u, ".", 1)
      ip == SubSeq(u, 1, i - 1)
      fp == From(u, i + 1)
  IN  /\ i # 0
      /\ ip = << >> \/ AllDigits(ip)
      /\ fp = << >> \/ AllDigits(fp)
      /\ ip # << >> \/ fp # << >>

DigitChar(d) ==
  CASE d = 0 -> "0" [] d = 1 -> "1" [] d = 2 -> "2" [] d = 3 -> "3"
    [] d = 4 -> "4" [] d = 5 -> "5" [] d = 6 -> "6" [] d = 7 -> "7"
    [] d = 8 -> "8" [] d = 9 -> "9"

\* The decimal digits of a natural number.
RECURSIVE NatText(_)
NatText(n) ==
  IF n < 10 THEN << DigitChar(n) >>
  ELSE Append(NatText(n \div 10), DigitChar(n % 10))

\* str(n) of an int.
IntText(n) == IF n < 0 THEN << "-" >> \o NatText(-n) ELSE NatText(n)

\* The last k decimal digits of n, with leading zeros.
RECURSIVE FixedDigits(_, _)
FixedDigits(n, k) ==
  IF k = 0 THEN << >>
  ELSE Append(FixedDigits(n \div 10, k - 1), DigitChar(n % 10))

\* str.rstrip("0")
RECURSIVE RStripZeros(_)
RStripZeros(s) ==
  IF s # << >> /\ s[Len(s)] = "0" THEN RStripZeros(SubSeq(s, 1, Len(s) - 1))
  ELSE s

\* ---------------------------------------------------------------- numbers

\* Units per mm of an E value (E is rounded and rendered with 5 decimals).
E_SCALE == 10 ^ 5

\* Units per mm of a curve value and of the settling accumulator.
FINE == 10 ^ 8

\* The unit a parameter's number is held in: by its letter.
Scale(name) == IF name = << "E" >> THEN E_SCALE ELSE 1

ScaleDigits(name) == IF name = << "E" >> THEN 5 ELSE 0

Abs(n) == IF n < 0 THEN -n ELSE n

\* The fraction digits fp as a number of k decimals (digits beyond k are
\* below the resolution of the model and are cut).
FracVal(fp, k) ==
  DigitsVal(SubSeq(fp \o << "0", "0", "0", "0", "0" >>, 1, k), 0)

\* int(value), else float(value), of a parameter's value text: the number in
\* the unit of the parameter, or None when both raise ValueError.
NumValue(name, s) ==
  IF IsInt(s)
  THEN Some(SignOf(s) * DigitsVal(Unsigned(s), 0) * Scale(name))
  ELSE IF IsFloat(s)
  THEN LET u == Unsigned(s)
           i == IndexOf(u, ".", 1)
       IN  Some(SignOf(s) * (DigitsVal(SubSeq(u, 1, i - 1), 0) * Scale(name)
                             + FracVal(From(u, i + 1), ScaleDigits(name))))
  ELSE None

\* round(number / den) to the nearest integer, ties to even (Python round).
RoundDiv(num, den) ==
  LET q == num \div den
      r == num % den
  IN  IF 2 * r < den THEN q
      ELSE IF 2 * r > den THEN q + 1
      ELSE IF q % 2 = 0 THEN q ELSE q + 1

\* "{:.kf}".format(number) of number = num / (unit * 10^k): the sign (also of
\* a zero that is negative), the integer digits, the point and k decimals.
FormatFixed(num, unit, k, negative_zero) ==
  LET r == RoundDiv(Abs(num), unit)
  IN  (IF num < 0 \/ negative_zero THEN << "-" >> ELSE << >>)
        \o NatText(r \div (10 ^ k)) \o << "." >> \o FixedDigits(r % (10 ^ k), k)

Min(a, b) == IF a <= b THEN a ELSE b

Max(a, b) == IF a >= b THEN a ELSE b

\* ---------------------------------------------------- Parameter, State, Gcode

\* Parameter(name, value); negative_zero is the sign of a value that is the
\* float zero (TRUE for -0.0).
Parameter(name, value) ==
  [name |-> name, value |-> value, negative_zero |-> FALSE]

\* State(): every axis unknown, both modes absolute.
State_default ==
  [X |-> None, Y |-> None, Z |-> None, E |-> None, F |-> None,
   move_is_absolute |-> TRUE, extrude_is_absolute |-> TRUE]

\* Gcode(): no command, no parameters, absolute modes, no prior state.
Gcode_default ==
  [command |-> None, parameters |-> << >>,
   move_is_absolute |-> TRUE, extrude_is_absolute |-> TRUE,
   comment |-> None, previous_state |-> None, num_line |-> None]

\* ------------------------------------------------------------- the tokenizer

\* ^[A-Za-z][0-9]+$
validate_gcode_command_string(string) ==
  /\ Len(string) >= 2
  /\ string[1] \in Letters
  /\ AllDigits(Tail(string))

\* One whitespace-delimited part after the command: name = part[0] and
\* value = int or float of part[1:]; when neither parses, the whole part is
\* the name and the value is None.
parse_parameter(part) ==
  LET name == << part[1] >>
      value == NumValue(name, Tail(part))
  IN  IF value = None THEN Parameter(part, None) ELSE Parameter(name, value)

RECURSIVE parse_parameters(_)
parse_parameters(parts) ==
  IF parts = << >> THEN << >>
  ELSE << parse_parameter(Head(parts)) >> \o parse_parameters(Tail(parts))

\* The tokenizer without the clone of the prior state: the Command has no
\* prior state and the default flags.
parse_gcode_line_stateless(gcode_line, prev_state) ==
  LET line == Strip(gcode_line)
      parts == SplitComment(line)
      comment == IF Len(parts) > 1
                 THEN Some(Strip(RemoveChar(parts[2], ";")))
                 ELSE None
      gcode_parts == Split(Strip(parts[1]))
  IN  IF line = << >> THEN Gcode_default
      ELSE IF StartsWith(line, << ";" >>)
      THEN [Gcode_default EXCEPT !.command = Some(line)]
      ELSE IF ~validate_gcode_command_string(gcode_parts[1])
      THEN [Gcode_default EXCEPT !.command = Some(parts[1]), !.comment = comment]
      ELSE [Gcode_default EXCEPT !.command = Some(gcode_parts[1]),
                                 !.comment = comment,
                                 !.parameters = parse_parameters(Tail(gcode_parts))]

\* parse_gcode_line(gcode_line, prev_state); prev_state is None or Some(state).
parse_gcode_line(gcode_line, prev_state) ==
  LET gcode == IF prev_state = None THEN Gcode_default
               ELSE [Gcode_default EXCEPT
                       !.previous_state = prev_state,
                       !.extrude_is_absolute = Val(prev_state).extrude_is_absolute,
                       !.move_is_absolute = Val(prev_state).move_is_absolute]
      line == Strip(gcode_line)
      parts == SplitComment(line)
      comment == IF Len(parts) > 1
                 THEN Some(Strip(RemoveChar(parts[2], ";")))
                 ELSE None
      gcode_parts == Split(Strip(parts[1]))
  IN  IF line = << >> THEN gcode
      ELSE IF StartsWith(line, << ";" >>)
      THEN [gcode EXCEPT !.command = Some(line)]
      ELSE IF ~validate_gcode_command_string(gcode_parts[1])
      THEN [gcode EXCEPT !.command = Some(parts[1]), !.comment = comment]
      ELSE [gcode EXCEPT !.command = Some(gcode_parts[1]),
                         !.comment = comment,
                         !.parameters = parse_parameters(Tail(gcode_parts))]

\* -------------------------------------------------------------------- state

VARIABLES
  \* configuration (module globals, never assigned after start-up)
  max_settling_positive,        \* FINE units
  settling_negative,            \* FINE units per unit of X
  settling_positive,            \* FINE units per unit of X
  use_for_travel_moves,
  freeze_settle_on_travel,
  force_full_flow,
  adjustment_hardlimit_factor,
  remove_width_comments,
  verbose,
  \* read_gcode_file
  settling_current,             \* the settling accumulator, FINE units
  lines,                        \* the input lines consumed so far, in order
  last_state,                   \* None, or Some(state after the last processed line)
  num_line,
  parse_progress,
  layer_height,
  last_layer_height,
  gcodes,                       \* the output list: Gcode records and text lines
  origin,                       \* history: origin[i] is the number of the input
                                \* line that gcodes[i] came from
  locals,                       \* the loop body's locals after the last iteration
                                \* (x_value, e_value, travel_move, ...), with the
                                \* Command as parse_gcode_line returned it, the
                                \* adjustment before the hardlimit, and how the
                                \* iteration ended: "blank", "width", "appended",
                                \* "error"
  writefile,                    \* main: the lines written to the output file
  pc                            \* "reading", "returned" (read_gcode_file returned
                                \* its list), "written" (main wrote the file), or
                                \* "error" (TypeError raised, nothing is written)

config ==
  << max_settling_positive, settling_negative, settling_positive,
     use_for_travel_moves, freeze_settle_on_travel, force_full_flow,
     adjustment_hardlimit_factor, remove_width_comments, verbose >>

vars ==
  << config, settling_current, lines, last_state, num_line, parse_progress,
     layer_height, last_layer_height, gcodes, origin, locals, writefile, pc >>

\* ---------------------------------------------------------- curve constants

\* coefficient_a = -0.6137273, in FINE units.
coefficient_a == -61372730

\* coefficient_b = 0.007144318, in FINE units (the nearest multiple of 1e-8).
coefficient_b == 714432

\* coefficient_c = -0.00002054924, in FINE units (the nearest multiple of 1e-8).
coefficient_c == -2055

\* The divisor of e_adjust_relative.
characteristic_length == 180

\* e_adjust_relative units per E unit: e_adjust_relative is a numerator over
\* characteristic_length * FINE.
ADJ_PER_E == characteristic_length * (FINE \div E_SCALE)

extruder_position_adjustment(x_position) ==
  coefficient_a + coefficient_b * x_position
    + coefficient_c * x_position * x_position

\* ------------------------------------------------------------ Gcode methods

\* The parameter loop's step with the mode flags ignored: every axis value
\* replaces the prior one.
state_parameter_always_absolute(st, parameter) ==
  IF parameter.name = << "X" >> THEN Some([st EXCEPT !.X = parameter.value])
  ELSE IF parameter.name = << "Y" >> THEN Some([st EXCEPT !.Y = parameter.value])
  ELSE IF parameter.name = << "Z" >> THEN Some([st EXCEPT !.Z = parameter.value])
  ELSE IF parameter.name = << "E" >> THEN Some([st EXCEPT !.E = parameter.value])
  ELSE IF parameter.name = << "F" >> THEN Some([st EXCEPT !.F = parameter.value])
  ELSE Some(st)

\* One step of the parameter loop of Gcode.state on the state so far; None
\* when the step raises TypeError (None as an operand of +=).
state_parameter(st, parameter) ==
  LET name == parameter.name
      value == parameter.value
      add(old) == IF old = None \/ value = None THEN None
                  ELSE Some(Val(old) + Val(value))
      axis(old, absolute) == IF absolute THEN Some(value) ELSE
                             IF add(old) = None THEN None ELSE Some(add(old))
  IN  IF name = << "X" >>
      THEN LET r == axis(st.X, st.move_is_absolute)
           IN  IF r = None THEN None ELSE Some([st EXCEPT !.X = Val(r)])
      ELSE IF name = << "Y" >>
      THEN LET r == axis(st.Y, st.move_is_absolute)
           IN  IF r = None THEN None ELSE Some([st EXCEPT !.Y = Val(r)])
      ELSE IF name = << "Z" >>
      THEN LET r == axis(st.Z, st.move_is_absolute)
           IN  IF r = None THEN None ELSE Some([st EXCEPT !.Z = Val(r)])
      ELSE IF name = << "E" >>
      THEN LET r == axis(st.E, st.extrude_is_absolute)
           IN  IF r = None THEN None ELSE Some([st EXCEPT !.E = Val(r)])
      ELSE IF name = << "F" >>
      THEN Some([st EXCEPT !.F = value])
      ELSE Some(st)

RECURSIVE state_parameters(_, _)
state_parameters(st, parameters) ==
  IF parameters = << >> THEN Some(st)
  ELSE LET r == state_parameter(st, Head(parameters))
       IN  IF r = None THEN None ELSE state_parameters(Val(r), Tail(parameters))

\* G0 a motion command to Gcode.state whatever use_for_travel_moves says.
state_is_motion_any_G0(command) ==
  \/ command = Some(<< "G", "1" >>)
  \/ command = Some(<< "G", "2" >>)
  \/ command = Some(<< "G", "3" >>)
  \/ command = Some(<< "G", "0" >>)

\* Whether Gcode.state treats the command as a motion command.
state_is_motion(command) ==
  \/ command = Some(<< "G", "1" >>)
  \/ command = Some(<< "G", "2" >>)
  \/ command = Some(<< "G", "3" >>)
  \/ (command = Some(<< "G", "0" >>) /\ use_for_travel_moves)

\* Gcode.state(): Some(state), or None when it raises TypeError.
Gcode_state(gcode) ==
  LET start == IF gcode.previous_state = None
               THEN [State_default EXCEPT !.X = Some(0), !.Y = Some(0),
                                          !.Z = Some(0), !.E = Some(0)]
               ELSE Val(gcode.previous_state)
      moved == IF state_is_motion(gcode.command)
               THEN state_parameters(start, gcode.parameters)
               ELSE Some(start)
  IN  IF moved = None THEN None
      ELSE Some([Val(moved) EXCEPT
                   !.move_is_absolute = gcode.move_is_absolute,
                   !.extrude_is_absolute = gcode.extrude_is_absolute])

\* Index of the first parameter called name, 0 when there is none.
RECURSIVE find_param(_, _, _)
find_param(parameters, name, i) ==
  IF i > Len(parameters) THEN 0
  ELSE IF parameters[i].name = name THEN i
  ELSE find_param(parameters, name, i + 1)

\* set_param that never looks for the parameter: the value is always appended.
set_param_appending(gcode, name, value) ==
  [gcode EXCEPT !.parameters = Append(@, Parameter(name, value))]

\* Gcode.set_param(name, value): value is None or Some(number).
set_param(gcode, name, value) ==
  LET i == find_param(gcode.parameters, name, 1)
  IN  IF i # 0
      THEN [gcode EXCEPT !.parameters[i] = Parameter(@.name, value)]
      ELSE [gcode EXCEPT !.parameters = Append(@, Parameter(name, value))]

\* The sign of the zero that set_param's float value is, on the parameter
\* that set_param wrote.
set_negative_zero(gcode, name, negative_zero) ==
  LET i == find_param(gcode.parameters, name, 1)
  IN  [gcode EXCEPT !.parameters[i].negative_zero = negative_zero]

\* get_param with a default of zero for a parameter that is not there.
get_param_or_zero(gcode, name) ==
  LET i == find_param(gcode.parameters, name, 1)
  IN  IF i # 0 THEN gcode.parameters[i].value ELSE Some(0)

\* Gcode.get_param(name): the value of the first such parameter, else None.
get_param(gcode, name) ==
  LET i == find_param(gcode.parameters, name, 1)
  IN  IF i # 0 THEN gcode.parameters[i].value ELSE None

\* Gcode.is_xy_movement()
is_xy_movement(gcode) ==
  /\ gcode.command \in {Some(<< "G", "1" >>), Some(<< "G", "2" >>),
                        Some(<< "G", "3" >>)}
  /\ \E i \in 1..Len(gcode.parameters) :
       /\ gcode.parameters[i].name \in {<< "X" >>, << "Y" >>}
       /\ gcode.parameters[i].value # None

\* Gcode._format_number(number, precision) of number / 10^digits, for a
\* precision of at least digits: the decimals without trailing zeros, no
\* point when there are none, and no zero before the point.
format_number(number, digits, negative_zero) ==
  LET ip == Abs(number) \div (10 ^ digits)
      frac == RStripZeros(FixedDigits(Abs(number) % (10 ^ digits), digits))
  IN  (IF number < 0 \/ negative_zero THEN << "-" >> ELSE << >>)
        \o (IF frac = << >> THEN NatText(ip)
            ELSE IF ip = 0 THEN << "." >> \o frac
            ELSE NatText(ip) \o << "." >> \o frac)

\* The text __str__ adds for one parameter.
parameter_str(st) ==
  IF st.value = None THEN << " " >> \o st.name
  ELSE IF st.name \in {<< "X" >>, << "Y" >>, << "Z" >>, << "E" >>}
  THEN << " " >> \o st.name
         \o format_number(Val(st.value), ScaleDigits(st.name), st.negative_zero)
  ELSE << " " >> \o st.name \o IntText(Val(st.value))

RECURSIVE parameters_str(_)
parameters_str(parameters) ==
  IF parameters = << >> THEN << >>
  ELSE parameter_str(Head(parameters)) \o parameters_str(Tail(parameters))

\* The comment of the Gcode after __str__: a command with a numeric E that
\* is no XY movement gets the empty comment in place of None.
Gcode_str_comment(gcode) ==
  IF /\ gcode.comment = None
     /\ ~is_xy_movement(gcode)
     /\ \E i \in 1..Len(gcode.parameters) :
          /\ gcode.parameters[i].name = << "E" >>
          /\ gcode.parameters[i].value # None
  THEN Some(<< >>)
  ELSE gcode.comment

\* Gcode.__str__(): the command, its parameters, and the comment when it has
\* more than one character.
Gcode_str(gcode) ==
  LET string == IF gcode.command = None THEN << >>
                ELSE Val(gcode.command) \o parameters_str(gcode.parameters)
      comment == Gcode_str_comment(gcode)
  IN  IF comment # None /\ Len(Val(comment)) > 1
      THEN IF string = << >>
           THEN << ";", " " >> \o Val(comment)
           ELSE string \o << " ", ";", " " >> \o Val(comment)
      ELSE string

\* ------------------------------------------------ read_gcode_file: the steps

G0 == << "G", "0" >>

G1 == << "G", "1" >>

G2 == << "G", "2" >>

G3 == << "G", "3" >>

G90 == << "G", "9", "0" >>

G91 == << "G", "9", "1" >>

M82 == << "M", "8", "2" >>

M83 == << "M", "8", "3" >>

M221 == << "M", "2", "2", "1" >>

WIDTH == << ";", "W", "I", "D", "T", "H" >>

TRAVEL == << ";", "T", "R", "A", "V", "E", "L" >>

\* The mode commands with G91 switching the extrusion mode as well.
mode_update_coupled(gcode) ==
  IF gcode.command = Some(G90) THEN [gcode EXCEPT !.move_is_absolute = TRUE]
  ELSE IF gcode.command = Some(G91)
  THEN [gcode EXCEPT !.move_is_absolute = FALSE, !.extrude_is_absolute = FALSE]
  ELSE IF gcode.command = Some(M82) THEN [gcode EXCEPT !.extrude_is_absolute = TRUE]
  ELSE IF gcode.command = Some(M83) THEN [gcode EXCEPT !.extrude_is_absolute = FALSE]
  ELSE IF gcode.command = Some(M221) /\ force_full_flow
  THEN set_param(gcode, << "S" >>, Some(100))
  ELSE gcode

\* The mode commands and the full-flow override on the parsed line.
mode_update(gcode) ==
  IF gcode.command = Some(G90) THEN [gcode EXCEPT !.move_is_absolute = TRUE]
  ELSE IF gcode.command = Some(G91) THEN [gcode EXCEPT !.move_is_absolute = FALSE]
  ELSE IF gcode.command = Some(M82) THEN [gcode EXCEPT !.extrude_is_absolute = TRUE]
  ELSE IF gcode.command = Some(M83) THEN [gcode EXCEPT !.extrude_is_absolute = FALSE]
  ELSE IF gcode.command = Some(M221) /\ force_full_flow
  THEN set_param(gcode, << "S" >>, Some(100))
  ELSE gcode

\* Whether the line is dropped before any state is derived from it.
is_blank(gcode) == gcode.command = None

\* No width comment is ever dropped.
is_width_comment_never(gcode) == FALSE

\* The width comment dropped whatever remove_width_comments says.
is_width_comment_always(gcode) == StartsWith(Val(gcode.command), WIDTH)

is_width_comment(gcode) ==
  remove_width_comments /\ StartsWith(Val(gcode.command), WIDTH)

\* Convert G0 to G1.
is_travel(gcode) == gcode.command = Some(G0) /\ use_for_travel_moves

travel_convert(gcode) ==
  IF is_travel(gcode) THEN [gcode EXCEPT !.command = Some(G1)] ELSE gcode

is_motion(gcode) ==
  gcode.command = Some(G1) \/ gcode.command = Some(G2) \/ gcode.command = Some(G3)

\* The accumulator frozen on every travel move, whatever the setting.
settle_allowed_travel_never(travel_move) == ~travel_move

\* Whether the settling accumulator is updated on this move.
settle_allowed(travel_move) == ~travel_move \/ ~freeze_settle_on_travel

\* The update without its min and max: the accumulator is never clamped.
settling_update_unclamped(settling, x_change) ==
  IF x_change > 0 THEN settling + settling_positive * x_change
  ELSE IF x_change < 0 THEN settling + settling_negative * x_change
  ELSE settling

\* The settling accumulator after a move of x_change.
settling_update(settling, x_change) ==
  IF x_change > 0
  THEN Min(settling + settling_positive * x_change, max_settling_positive)
  ELSE IF x_change < 0
  THEN Max(settling + settling_negative * x_change, 0)
  ELSE settling

\* The check of the upper bound alone.
settling_out_of_bounds_above(settling) == settling > max_settling_positive

settling_out_of_bounds(settling) ==
  settling < 0 \/ settling > max_settling_positive

\* (e_xposition_adjust + settling_current) / 180 * x_change, as a numerator
\* over characteristic_length * FINE.
adjust_relative(e_xposition_adjust, settling, x_change) ==
  (e_xposition_adjust + settling) * x_change

\* Whether the product is the float -0.0: a negative factor times zero.
adjust_relative_negative_zero(e_xposition_adjust, settling, x_change) ==
  \/ (e_xposition_adjust + settling < 0 /\ x_change = 0)
  \/ (e_xposition_adjust + settling = 0 /\ x_change < 0)

\* The hardlimit left out: the adjustment as computed.
hardlimit_dropped(e_adjust_relative, e_value) == e_adjust_relative

\* The hardlimit: min with e_value * factor, then max with -e_value * factor.
hardlimit(e_adjust_relative, e_value) ==
  Max(Min(e_adjust_relative,
          e_value * ADJ_PER_E * adjustment_hardlimit_factor),
      -e_value * ADJ_PER_E * adjustment_hardlimit_factor)

\* Whether the hardlimit's result is the float -0.0: min and max return their
\* first argument unless the second is smaller (larger), and the limits
\* e_value * factor and -e_value * factor are signed zeros when the factor
\* is zero.
hardlimit_negative_zero(e_adjust_relative, negative_zero, e_value) ==
  LET upper == e_value * ADJ_PER_E * adjustment_hardlimit_factor
      lower == -e_value * ADJ_PER_E * adjustment_hardlimit_factor
      upper_nz == e_value < 0 /\ adjustment_hardlimit_factor = 0
      lower_nz == e_value > 0 /\ adjustment_hardlimit_factor = 0
      low == IF upper < e_adjust_relative THEN upper ELSE e_adjust_relative
      low_nz == IF upper < e_adjust_relative THEN upper_nz ELSE negative_zero
  IN  IF lower > low THEN lower_nz ELSE low_nz

\* round(e_value + e_adjust_relative, 5)
corrected_E(e_value, e_adjust_relative) ==
  RoundDiv(e_value * ADJ_PER_E + e_adjust_relative, ADJ_PER_E)

\* Whether that round() is -0.0: a negative sum below half a unit.
corrected_E_negative_zero(e_value, e_adjust_relative) ==
  /\ e_value * ADJ_PER_E + e_adjust_relative < 0
  /\ corrected_E(e_value, e_adjust_relative) = 0

\* round(e_adjust_relative, 5)
synthesized_E(e_adjust_relative) == RoundDiv(e_adjust_relative, ADJ_PER_E)

\* Whether that round() is -0.0: of -0.0, or of a negative number below half
\* a unit.
synthesized_E_negative_zero(e_adjust_relative, negative_zero) ==
  \/ negative_zero
  \/ (e_adjust_relative < 0 /\ synthesized_E(e_adjust_relative) = 0)

\* The Z hop bookkeeping: the new << layer_height, last_layer_height >>.
z_hop(z_value) ==
  IF z_value = None THEN << layer_height, last_layer_height >>
  ELSE IF Val(z_value) > 0 THEN << "zero", layer_height >>
  ELSE << last_layer_height, last_layer_height >>

\* The two verbose lines of a compensated move:
\* ";ABS E adj:%.5f settl:%.5f Δx:%.3f" and ";REL E adj:%.5f".
verbose_lines(e_xposition_adjust, settling, x_change, e_adjust_relative, negative_zero) ==
  << [text |-> << ";", "A", "B", "S", " ", "E", " ", "a", "d", "j", ":" >>
                 \o FormatFixed(e_xposition_adjust, FINE \div E_SCALE, 5, FALSE)
                 \o << " ", "s", "e", "t", "t", "l", ":" >>
                 \o FormatFixed(settling, FINE \div E_SCALE, 5, FALSE)
                 \o << " ", "Δ", "x", ":" >>
                 \o FormatFixed(x_change * 1000, 1, 3, FALSE),
      values |-> << e_xposition_adjust, settling, x_change >>],
     [text |-> << ";", "R", "E", "L", " ", "E", " ", "a", "d", "j", ":" >>
                 \o FormatFixed(e_adjust_relative, ADJ_PER_E, 5, negative_zero),
      values |-> << e_adjust_relative >>] >>

\* The locals of an iteration that ends before the motion branch
\* (settling_before is the accumulator as the iteration found it).
no_locals ==
  [outcome |-> "none", parsed |-> Gcode_default, settling_before |-> 0,
   travel_move |-> FALSE,
   x_value |-> None, z_value |-> None, e_value |-> None,
   compensated |-> FALSE, x_change |-> 0, e_xposition_adjust |-> 0,
   e_adjust_unclamped |-> 0, e_adjust_relative |-> 0, warning |-> FALSE]

\* The compensation of a motion command with a prior state and an X value:
\* the new settling accumulator, the rewritten command, the lines put before
\* it, and the locals.
compensate(gcode, travel_move, x_value, e_value, settling) ==
  LET prev_X == Val(Val(gcode.previous_state).X)
      e_xposition_adjust == extruder_position_adjustment(x_value)
                              - extruder_position_adjustment(prev_X)
      x_change == x_value - prev_X
      settling1 == IF settle_allowed(travel_move)
                   THEN settling_update(settling, x_change)
                   ELSE settling
      warning == settle_allowed(travel_move) /\ settling_out_of_bounds(settling1)
      unclamped == adjust_relative(e_xposition_adjust, settling1, x_change)
      unclamped_nz == adjust_relative_negative_zero(e_xposition_adjust,
                                                    settling1, x_change)
      e_adjust_relative == IF e_value # None
                           THEN hardlimit(unclamped, Val(e_value))
                           ELSE unclamped
      negative_zero == IF e_value # None
                       THEN hardlimit_negative_zero(unclamped, unclamped_nz,
                                                    Val(e_value))
                       ELSE unclamped_nz
      gcode1 == IF e_value # None
                THEN set_negative_zero(
                       set_param(gcode, << "E" >>,
                                 Some(corrected_E(Val(e_value), e_adjust_relative))),
                       << "E" >>,
                       corrected_E_negative_zero(Val(e_value), e_adjust_relative))
                ELSE gcode
      synth == e_value = None /\ use_for_travel_moves
      gcode2 == IF synth
                THEN set_negative_zero(
                       set_param(gcode1, << "E" >>,
                                 Some(synthesized_E(e_adjust_relative))),
                       << "E" >>,
                       synthesized_E_negative_zero(e_adjust_relative,
                                                   negative_zero))
                ELSE gcode1
      before == (IF synth THEN << [text |-> TRAVEL, values |-> << >>] >> ELSE << >>)
                \o (IF verbose
                    THEN verbose_lines(e_xposition_adjust, settling1, x_change,
                                       e_adjust_relative, negative_zero)
                    ELSE << >>)
  IN  [settling |-> settling1, gcode |-> gcode2, before |-> before,
       x_change |-> x_change, e_xposition_adjust |-> e_xposition_adjust,
       e_adjust_unclamped |-> unclamped,
       e_adjust_relative |-> e_adjust_relative, warning |-> warning]

\* The list with the command appended after the lines put before it.
appended_command_first(list, before, gcode) == Append(list, gcode) \o before

\* The list after the iteration's appends: the ;TRAVEL marker and the verbose
\* lines first, then the command.
appended(list, before, gcode) == Append(list \o before, gcode)

\* ----------------------------------------------------------------- actions

\* The number of input lines a run of the model reads at most.
MaxLines == 3

\* The state after construction, for a configuration drawn by the caller.
InitRun ==
  /\ settling_current = 0
  /\ lines = << >>
  /\ last_state = None
  /\ num_line = 1
  /\ parse_progress = 0
  /\ layer_height = "env"
  /\ last_layer_height = "env"
  /\ gcodes = << >>
  /\ origin = << >>
  /\ locals = no_locals
  /\ writefile = << >>
  /\ pc = "reading"

\* A line that is dropped (blank, or a width comment): nothing but the read
\* position and the locals changes.
Skip(line, parsed, outcome) ==
  /\ lines' = Append(lines, line)
  /\ locals' = [no_locals EXCEPT !.outcome = outcome, !.parsed = parsed,
                                 !.settling_before = settling_current]
  /\ UNCHANGED << config, settling_current, last_state, num_line,
                  parse_progress, layer_height, last_layer_height, gcodes,
                  origin, writefile, pc >>

\* gcode.state() raises TypeError: the run ends there.
RaiseInState(line, parsed) ==
  /\ lines' = Append(lines, line)
  /\ locals' = [no_locals EXCEPT !.outcome = "error", !.parsed = parsed,
                                 !.settling_before = settling_current]
  /\ pc' = "error"
  /\ UNCHANGED << config, settling_current, last_state, num_line,
                  parse_progress, layer_height, last_layer_height, gcodes,
                  origin, writefile >>

\* A processed line, from last_state = gcode.state() on.
Process(line, parsed, gcode0, new_state) ==
  LET travel_move == is_travel(gcode0)
      gcode == [travel_convert(gcode0) EXCEPT !.num_line = Some(num_line)]
      motion == is_motion(gcode)
      x_value == IF motion THEN get_param(gcode, << "X" >>) ELSE None
      z_value == IF motion THEN get_param(gcode, << "Z" >>) ELSE None
      e_value == IF motion THEN get_param(gcode, << "E" >>) ELSE None
      zh == z_hop(z_value)
      engine == motion /\ gcode.previous_state # None /\ x_value # None
      raises == engine /\ Val(gcode.previous_state).X = None
      c == compensate(gcode, travel_move, Val(x_value), e_value, settling_current)
      seen == [no_locals EXCEPT !.parsed = parsed,
                                !.settling_before = settling_current,
                                !.travel_move = travel_move,
                                !.x_value = x_value, !.z_value = z_value,
                                !.e_value = e_value]
  IN  /\ lines' = Append(lines, line)
      /\ last_state' = Some(new_state)
      /\ num_line' = num_line + 1
      /\ layer_height' = zh[1]
      /\ last_layer_height' = zh[2]
      /\ UNCHANGED << config, writefile >>
      /\ IF raises
         THEN /\ pc' = "error"
              /\ locals' = [seen EXCEPT !.outcome = "error"]
              /\ UNCHANGED << settling_current, parse_progress, gcodes, origin >>
         ELSE IF engine
         THEN /\ settling_current' = c.settling
              /\ gcodes' = appended(gcodes, c.before, c.gcode)
              /\ origin' = origin \o [i \in 1..(Len(c.before) + 1) |-> Len(lines) + 1]
              /\ parse_progress' = parse_progress + 1
              /\ locals' = [seen EXCEPT
                              !.outcome = "appended", !.compensated = TRUE,
                              !.x_change = c.x_change,
                              !.e_xposition_adjust = c.e_xposition_adjust,
                              !.e_adjust_unclamped = c.e_adjust_unclamped,
                              !.e_adjust_relative = c.e_adjust_relative,
                              !.warning = c.warning]
              /\ UNCHANGED pc
         ELSE /\ gcodes' = appended(gcodes, << >>, gcode)
              /\ origin' = Append(origin, Len(lines) + 1)
              /\ parse_progress' = parse_progress + 1
              /\ locals' = [seen EXCEPT !.outcome = "appended"]
              /\ UNCHANGED << settling_current, pc >>

\* One iteration of the loop over the lines of the file, on the next line.
Iteration(line) ==
  /\ pc = "reading"
  /\ Len(lines) < MaxLines
  /\ LET parsed == parse_gcode_line(line, last_state)
         gcode == mode_update(parsed)
         new_state == Gcode_state(gcode)
     IN  IF is_blank(gcode) THEN Skip(line, parsed, "blank")
         ELSE IF is_width_comment(gcode) THEN Skip(line, parsed, "width")
         ELSE IF new_state = None THEN RaiseInState(line, parsed)
         ELSE Process(line, parsed, gcode, Val(new_state))

\* The file is exhausted: read_gcode_file returns gcodes.
Return ==
  /\ pc = "reading"
  /\ pc' = "returned"
  /\ UNCHANGED << config, settling_current, lines, last_state, num_line,
                  parse_progress, layer_height, last_layer_height, gcodes,
                  origin, locals, writefile >>

\* str() of an entry of the list: a Gcode's __str__, or the string itself.
entry_str(entry) ==
  IF "command" \in DOMAIN entry THEN Gcode_str(entry) ELSE entry.text

\* The entry after str(): __str__ may put the empty comment in place of None.
entry_after_str(entry) ==
  IF "command" \in DOMAIN entry
  THEN [entry EXCEPT !.comment = Gcode_str_comment(entry)]
  ELSE entry

\* main, after read_gcode_file returned: str(gcode) + "\n" is written for
\* every entry of the list, in order.
Write ==
  /\ pc = "returned"
  /\ writefile' = [k \in 1..Len(gcodes) |-> entry_str(gcodes[k])]
  /\ gcodes' = [k \in 1..Len(gcodes) |-> entry_after_str(gcodes[k])]
  /\ pc' = "written"
  /\ UNCHANGED << config, settling_current, lines, last_state, num_line,
                  parse_progress, layer_height, last_layer_height, origin,
                  locals >>

\* ------------------------------------------------------------ input lines

\* "" (an empty line)
Line_blank ==
  << >>

\* "  " (a whitespace-only line)
Line_spaces ==
  << " ", " " >>

\* ";WIDTH:0.45"
Line_width ==
  << ";", "W", "I", "D", "T", "H", ":", "0", ".", "4", "5" >>

\* ";WIDTH:0.45 " (with a trailing blank)
Line_width_padded ==
  << ";", "W", "I", "D", "T", "H", ":", "0", ".", "4", "5", " " >>

\* "; note"
Line_note ==
  << ";", " ", "n", "o", "t", "e" >>

\* "START_PRINT ; go"
Line_opaque ==
  << "S", "T", "A", "R", "T", "_", "P", "R", "I", "N", "T", " ", ";", " ",
     "g", "o" >>

\* "G90"
Line_G90 ==
  << "G", "9", "0" >>

\* "G91"
Line_G91 ==
  << "G", "9", "1" >>

\* "M82"
Line_M82 ==
  << "M", "8", "2" >>

\* "M83"
Line_M83 ==
  << "M", "8", "3" >>

\* "M104 S200"
Line_M104 ==
  << "M", "1", "0", "4", " ", "S", "2", "0", "0" >>

\* "M221 S95"
Line_M221 ==
  << "M", "2", "2", "1", " ", "S", "9", "5" >>

\* "M221"
Line_M221_bare ==
  << "M", "2", "2", "1" >>

\* "G1 X0"
Line_G1_X0 ==
  << "G", "1", " ", "X", "0" >>

\* "G1 X5"
Line_G1_X5 ==
  << "G", "1", " ", "X", "5" >>

\* "G1 X10"
Line_G1_X10 ==
  << "G", "1", " ", "X", "1", "0" >>

\* "G0 X0"
Line_G0_X0 ==
  << "G", "0", " ", "X", "0" >>

\* "G0 X5"
Line_G0_X5 ==
  << "G", "0", " ", "X", "5" >>

\* "G0 X10"
Line_G0_X10 ==
  << "G", "0", " ", "X", "1", "0" >>

\* "G0 X5 E.01"
Line_G0_X5_E ==
  << "G", "0", " ", "X", "5", " ", "E", ".", "0", "1" >>

\* "G0 X3 Z1"
Line_G0_X3_Z1 ==
  << "G", "0", " ", "X", "3", " ", "Z", "1" >>

\* "G1 X10 E.0005"
Line_G1_X10_Esmall ==
  << "G", "1", " ", "X", "1", "0", " ", "E", ".", "0", "0", "0", "5" >>

\* "G1 X0 E.01"
Line_G1_X0_Elarge ==
  << "G", "1", " ", "X", "0", " ", "E", ".", "0", "1" >>

\* "G1 X10 E.01"
Line_G1_X10_Elarge ==
  << "G", "1", " ", "X", "1", "0", " ", "E", ".", "0", "1" >>

\* "G1 X5 E-.005"
Line_G1_X5_Eneg ==
  << "G", "1", " ", "X", "5", " ", "E", "-", ".", "0", "0", "5" >>

\* "G1 X10 E0"
Line_G1_X10_Ezero ==
  << "G", "1", " ", "X", "1", "0", " ", "E", "0" >>

\* "G1 E.01"
Line_G1_E ==
  << "G", "1", " ", "E", ".", "0", "1" >>

\* "G1 X E.01"
Line_G1_bareX_E ==
  << "G", "1", " ", "X", " ", "E", ".", "0", "1" >>

\* "G1 X"
Line_G1_bareX ==
  << "G", "1", " ", "X" >>

\* "G1 X7 E"
Line_G1_X7_bareE ==
  << "G", "1", " ", "X", "7", " ", "E" >>

\* "G1 Xabc Y"
Line_G1_text ==
  << "G", "1", " ", "X", "a", "b", "c", " ", "Y" >>

\* "G1 X5 Y-2 Z1 E.01 F1200"
Line_G1_all ==
  << "G", "1", " ", "X", "5", " ", "Y", "-", "2", " ", "Z", "1", " ", "E",
     ".", "0", "1", " ", "F", "1", "2", "0", "0" >>

\* "G0 Y5 E.01"
Line_G0_Y5_E ==
  << "G", "0", " ", "Y", "5", " ", "E", ".", "0", "1" >>

\* "G2 X4 Y4 E.002"
Line_G2_X4_Y4 ==
  << "G", "2", " ", "X", "4", " ", "Y", "4", " ", "E", ".", "0", "0", "2" >>

\* ----------------------------------------------------------- specifications

\* The source's values of the settling rates (0.01 per mm) and of the
\* hardlimit factor; max_settling_positive is 0.00 in the source and is also
\* run with a positive bound so that the accumulator moves.
DefaultRates ==
  /\ settling_negative = FINE \div 100
  /\ settling_positive = FINE \div 100

\* The compensation engine: moves with and without X and E, in absolute and
\* relative position and extrusion mode, with travel handling on and off and
\* the hardlimit at the source's 5 and at 0 (the freeze is left to SpecSettle).
CompLines ==
  { Line_G91, Line_M83, Line_G1_X10_Esmall, Line_G1_X0_Elarge,
    Line_G1_X5_Eneg, Line_G1_X10_Ezero, Line_G0_X5, Line_G0_Y5_E, Line_G1_E,
    Line_G1_bareX_E, Line_G2_X4_Y4 }

Init ==
  /\ InitRun
  /\ DefaultRates
  /\ max_settling_positive \in {0, 2 * (FINE \div 100)}
  /\ use_for_travel_moves \in BOOLEAN
  /\ freeze_settle_on_travel = FALSE
  /\ force_full_flow = FALSE
  /\ adjustment_hardlimit_factor \in {0, 5}
  /\ remove_width_comments = TRUE
  /\ verbose = FALSE

ReadLine == \E line \in CompLines : Iteration(line)

Next == ReadLine \/ Return \/ Write

Spec == Init /\ [][Next]_vars

\* The settling accumulator: moves to the right and to the left, travel
\* moves with and without the freeze, and bounds and rates of either sign (a
\* negative one is a configuration the source warns about).
SettleLines ==
  { Line_G1_X0, Line_G1_X5, Line_G1_X10, Line_G0_X0, Line_G0_X10, Line_G1_E }

InitSettle ==
  /\ InitRun
  /\ max_settling_positive \in {-(FINE \div 100), 0, 8 * (FINE \div 100)}
  /\ settling_negative \in {-(FINE \div 100), 0, FINE \div 100}
  /\ settling_positive \in {-(FINE \div 100), 0, FINE \div 100}
  /\ use_for_travel_moves = TRUE
  /\ freeze_settle_on_travel \in BOOLEAN
  /\ force_full_flow = FALSE
  /\ adjustment_hardlimit_factor = 5
  /\ remove_width_comments = TRUE
  /\ verbose = FALSE

ReadSettleLine == \E line \in SettleLines : Iteration(line)

NextSettle == ReadSettleLine \/ Return \/ Write

SpecSettle == InitSettle /\ [][NextSettle]_vars

\* The state tracker and the mode flags: the four mode commands, motion
\* commands with every axis letter, bare and non-numeric parameters, a travel
\* move and a command that is neither, with travel handling on and off.
StateLines ==
  { Line_G90, Line_G91, Line_M82, Line_M83, Line_G1_all, Line_G0_X3_Z1,
    Line_G1_bareX, Line_G1_X7_bareE, Line_G1_text, Line_M104, Line_note }

InitState ==
  /\ InitRun
  /\ DefaultRates
  /\ max_settling_positive = 0
  /\ use_for_travel_moves \in BOOLEAN
  /\ freeze_settle_on_travel = FALSE
  /\ force_full_flow = FALSE
  /\ adjustment_hardlimit_factor = 5
  /\ remove_width_comments = TRUE
  /\ verbose = FALSE

ReadStateLine == \E line \in StateLines : Iteration(line)

NextState == ReadStateLine \/ Return \/ Write

SpecState == InitState /\ [][NextState]_vars

\* The file as a list of lines: blank lines, comments, opaque lines and
\* commands, with every switch of the output either way.
FileLines ==
  { Line_blank, Line_spaces, Line_width, Line_width_padded, Line_note,
    Line_opaque, Line_M221, Line_G0_X5, Line_G1_X10_Elarge, Line_G1_bareX }

InitFile ==
  /\ InitRun
  /\ DefaultRates
  /\ max_settling_positive = 0
  /\ use_for_travel_moves \in BOOLEAN
  /\ freeze_settle_on_travel = FALSE
  /\ force_full_flow \in BOOLEAN
  /\ adjustment_hardlimit_factor = 5
  /\ remove_width_comments \in BOOLEAN
  /\ verbose \in BOOLEAN

ReadFileLine == \E line \in FileLines : Iteration(line)

NextFile == ReadFileLine \/ Return \/ Write

SpecFile == InitFile /\ [][NextFile]_vars

\* The full-flow override: M221 with and without an S parameter, another
\* command with an S parameter, a comment and a compensated move, with the
\* override on and off.
FlowLines ==
  { Line_M221, Line_M221_bare, Line_M104, Line_note, Line_G1_X10_Elarge,
    Line_G0_X5 }

InitFlow ==
  /\ InitRun
  /\ DefaultRates
  /\ max_settling_positive = 0
  /\ use_for_travel_moves = TRUE
  /\ freeze_settle_on_travel = FALSE
  /\ force_full_flow \in BOOLEAN
  /\ adjustment_hardlimit_factor = 5
  /\ remove_width_comments = TRUE
  /\ verbose = FALSE

ReadFlowLine == \E line \in FlowLines : Iteration(line)

NextFlow == ReadFlowLine \/ Return \/ Write

SpecFlow == InitFlow /\ [][NextFlow]_vars

\* The freeze of the settling accumulator on travel moves: travel moves with
\* and without an E value and other moves, to the right and to the left, in
\* both position modes, with the freeze on and off.
FreezeLines ==
  { Line_G91, Line_G1_X0, Line_G1_X10, Line_G0_X0, Line_G0_X10, Line_G0_X5_E,
    Line_G1_X10_Elarge }

InitFreeze ==
  /\ InitRun
  /\ DefaultRates
  /\ max_settling_positive = 8 * (FINE \div 100)
  /\ use_for_travel_moves = TRUE
  /\ freeze_settle_on_travel \in BOOLEAN
  /\ force_full_flow = FALSE
  /\ adjustment_hardlimit_factor = 5
  /\ remove_width_comments = TRUE
  /\ verbose = FALSE

ReadFreezeLine == \E line \in FreezeLines : Iteration(line)

NextFreeze == ReadFreezeLine \/ Return \/ Write

SpecFreeze == InitFreeze /\ [][NextFreeze]_vars

\* The flow of the state from line to line: moves whose E is rewritten or
\* synthesized, a travel move that is converted, mode commands, and blank and
\* ;WIDTH lines between them, with travel handling and removal on and off.
ForwardLines ==
  { Line_blank, Line_width, Line_G91, Line_M83, Line_G0_X5, Line_G1_X0_Elarge,
    Line_G1_X10_Elarge }

InitForward ==
  /\ InitRun
  /\ DefaultRates
  /\ max_settling_positive = 2 * (FINE \div 100)
  /\ use_for_travel_moves \in BOOLEAN
  /\ freeze_settle_on_travel = FALSE
  /\ force_full_flow = FALSE
  /\ adjustment_hardlimit_factor = 5
  /\ remove_width_comments \in BOOLEAN
  /\ verbose = FALSE

ReadForwardLine == \E line \in ForwardLines : Iteration(line)

NextForward == ReadForwardLine \/ Return \/ Write

SpecForward == InitForward /\ [][NextForward]_vars

\* ------------------------------------------------- what the claims speak of

\* The command appended by the last iteration (when its outcome is "appended").
LastGcode == gcodes[Len(gcodes)]

\* The numeric value of the first parameter called name, read off the
\* parameter list directly; None when there is none with a number.
NumericParam(parameters, name) ==
  LET hits == {i \in 1..Len(parameters) :
                 parameters[i].name = name /\ parameters[i].value # None}
  IN  IF hits = {} THEN None
      ELSE parameters[CHOOSE i \in hits : \A j \in hits : i <= j].value

HasParam(parameters, name) ==
  \E i \in 1..Len(parameters) : parameters[i].name = name

\* The X of the prior state of the command of the last iteration, zero when
\* the command has no prior state.
PriorX ==
  IF locals.parsed.previous_state = None THEN Some(0)
  ELSE Val(locals.parsed.previous_state).X

\* clamp(v, -bound, +bound)
ClampTo(v, bound) == IF v > bound THEN bound ELSE IF v < -bound THEN -bound ELSE v

\* (f(x_new) - f(x_prev) + accumulator) / 180 * (x_new - x_prev), as a
\* numerator over characteristic_length * FINE.
Adjustment(x_new, x_prev, accumulator) ==
  ( (coefficient_b * x_new + coefficient_c * x_new * x_new)
    - (coefficient_b * x_prev + coefficient_c * x_prev * x_prev)
    + accumulator ) * (x_new - x_prev)

\* The last iteration ran the compensation on a command with an explicit E.
CompensatedWithE == locals.compensated /\ locals.e_value # None

\* ------------------------------------------------------------------- claims

\* C2: for a compensated motion command with an explicit E value e and a
\* hardlimit factor h >= 0, the clamped adjustment lies in
\* [-|e|*h, +|e|*h], so the corrected E lies in [e - |e|*h, e + |e|*h], before
\* the rounding and as written to the command.
C2_CorrectedWithinHardlimit ==
  (CompensatedWithE /\ adjustment_hardlimit_factor >= 0) =>
    LET e == Val(locals.e_value)
        bound == Abs(e) * adjustment_hardlimit_factor
        written == Val(NumericParam(LastGcode.parameters, << "E" >>))
    IN  /\ locals.e_adjust_relative <= bound * ADJ_PER_E
        /\ locals.e_adjust_relative >= -bound * ADJ_PER_E
        /\ written <= e + bound
        /\ written >= e - bound

\* C2 witness: a positive E whose computed adjustment exceeds the hardlimit,
\* so that the clamp is what keeps the corrected E in range.
C2_Witness ==
  /\ CompensatedWithE
  /\ Val(locals.e_value) > 0
  /\ adjustment_hardlimit_factor = 5
  /\ locals.e_adjust_unclamped
       > Val(locals.e_value) * adjustment_hardlimit_factor * ADJ_PER_E
  /\ Val(NumericParam(LastGcode.parameters, << "E" >>))
       = Val(locals.e_value) * (1 + adjustment_hardlimit_factor)

\* C4: a motion command without a numeric X parameter is appended with the
\* parameters it was parsed with: E is neither rewritten nor synthesized.
C4_NoXKeepsE ==
  ( /\ locals.outcome = "appended"
    /\ is_motion(LastGcode)
    /\ NumericParam(locals.parsed.parameters, << "X" >>) = None )
  => LastGcode.parameters = locals.parsed.parameters

\* C4 witness: such a command with an E value, with a prior state, travel
\* synthesis on and a moved accumulator, is appended.
C4_Witness ==
  /\ locals.outcome = "appended"
  /\ is_motion(LastGcode)
  /\ NumericParam(locals.parsed.parameters, << "X" >>) = None
  /\ NumericParam(LastGcode.parameters, << "E" >>) = Some(1000)
  /\ locals.parsed.previous_state # None
  /\ use_for_travel_moves
  /\ settling_current > 0

\* C7: the corrected E of a compensated command with an explicit E value e
\* is e + clamp(adjustment, -|e|*h, +|e|*h) rounded to 5 decimals, for e of
\* either sign (x_new is the X value the engine read from the command).
C7_CorrectedIsClampedSum ==
  CompensatedWithE =>
    LET e == Val(locals.e_value)
        adjustment == Adjustment(Val(locals.x_value), Val(PriorX), settling_current)
        bound == Abs(e) * adjustment_hardlimit_factor * ADJ_PER_E
    IN  NumericParam(LastGcode.parameters, << "E" >>)
          = Some(RoundDiv(e * ADJ_PER_E + ClampTo(adjustment, bound), ADJ_PER_E))

\* C8: the x_new of the engine is the X the state tracker derives for the
\* command, and x_prev is the X of the prior state, in both position modes.
C8_EngineUsesTrackedX ==
  locals.compensated =>
    /\ locals.x_value = Val(last_state).X
    /\ locals.x_change = Val(Val(last_state).X) - Val(PriorX)

\* C10: with travel synthesis on, a G0 with a numeric X and no E, wherever it
\* is in the file, is appended as a G1 whose E is the unclamped adjustment
\* rounded to 5 decimals.
C10_TravelGainsE ==
  ( /\ use_for_travel_moves
    /\ locals.outcome \in {"appended", "error"}
    /\ locals.parsed.command = Some(G0)
    /\ NumericParam(locals.parsed.parameters, << "X" >>) # None
    /\ ~HasParam(locals.parsed.parameters, << "E" >>) )
  => /\ locals.outcome = "appended"
     /\ LastGcode.command = Some(G1)
     /\ PriorX # None
     /\ NumericParam(LastGcode.parameters, << "E" >>)
          = Some(RoundDiv(Adjustment(Val(Val(last_state).X), Val(PriorX),
                                     settling_current),
                          ADJ_PER_E))

\* The configuration is non-negative: the bound and both rates.
NonNegativeConfig ==
  /\ max_settling_positive >= 0
  /\ settling_positive >= 0
  /\ settling_negative >= 0

\* C1: with a non-negative bound and non-negative rates, after any sequence
\* of lines the settling accumulator is in [0, max_settling_positive].
C1_SettlingWithinBound ==
  NonNegativeConfig =>
    (settling_current >= 0 /\ settling_current <= max_settling_positive)

\* C1 witness: a move to the left has brought the accumulator down to a value
\* strictly inside the interval, after moves to the right had raised it.
C1_Witness ==
  /\ NonNegativeConfig
  /\ locals.compensated
  /\ locals.x_change < 0
  /\ settling_current > 0
  /\ settling_current < max_settling_positive

\* An entry of the output list that is a rendered Command (not an inserted
\* ;TRAVEL or verbose line).
IsCommand(entry) == "command" \in DOMAIN entry

\* The input lines, by number, that the output's Commands came from, in
\* output order.
RECURSIVE CommandOrigins(_)
CommandOrigins(k) ==
  IF k = 0 THEN << >>
  ELSE IF IsCommand(gcodes[k]) THEN Append(CommandOrigins(k - 1), origin[k])
  ELSE CommandOrigins(k - 1)

IsBlankLine(line) == \A i \in 1..Len(line) : line[i] \in Whitespace

IsWidthLine(line) == StartsWith(LStrip(line), WIDTH)

\* The numbers of the first n input lines that are neither blank nor a
\* dropped width comment, in order.
RECURSIVE KeptLines(_)
KeptLines(n) ==
  IF n = 0 THEN << >>
  ELSE IF IsBlankLine(lines[n]) \/ (remove_width_comments /\ IsWidthLine(lines[n]))
  THEN KeptLines(n - 1)
  ELSE Append(KeptLines(n - 1), n)

AxisOf(st, name) ==
  CASE name = << "X" >> -> st.X
    [] name = << "Y" >> -> st.Y
    [] name = << "Z" >> -> st.Z
    [] name = << "E" >> -> st.E

\* The state before the command of the last iteration: its prior state, or
\* the origin with absolute modes when it has none.
PriorState ==
  IF locals.parsed.previous_state = None
  THEN [State_default EXCEPT !.X = Some(0), !.Y = Some(0), !.Z = Some(0),
                             !.E = Some(0)]
  ELSE Val(locals.parsed.previous_state)

\* The last line is a motion command to the state tracker, and was processed.
TrackedMotion ==
  /\ locals.outcome = "appended"
  /\ locals.parsed.command \in {Some(G1), Some(G2), Some(G3)}
       \/ (locals.parsed.command = Some(G0) /\ use_for_travel_moves)

\* C5: after a motion command, each axis X, Y, Z, E given with a number is
\* that number when the prior state's mode is absolute and the prior value
\* plus that number when it is relative; F is the number given, whatever the
\* mode.
C5_AxisByMode ==
  TrackedMotion =>
    /\ \A name \in {<< "X" >>, << "Y" >>, << "Z" >>, << "E" >>} :
         LET v == NumericParam(locals.parsed.parameters, name)
             absolute == IF name = << "E" >> THEN PriorState.extrude_is_absolute
                         ELSE PriorState.move_is_absolute
         IN  v # None =>
               AxisOf(Val(last_state), name)
                 = IF absolute THEN v
                   ELSE Some(Val(AxisOf(PriorState, name)) + Val(v))
    /\ LET f == NumericParam(locals.parsed.parameters, << "F" >>)
       IN  f # None => Val(last_state).F = f

\* C5 witness: in relative position mode and absolute extrusion mode, a
\* second "G1 X5 Y-2 Z1 E.01 F1200" leaves X = 10, Y = -4, E = .01, F = 1200.
C5_Witness ==
  /\ TrackedMotion
  /\ ~PriorState.move_is_absolute
  /\ PriorState.extrude_is_absolute
  /\ PriorState.X = Some(5)
  /\ Val(last_state).X = Some(10)
  /\ Val(last_state).Y = Some(-4)
  /\ Val(last_state).E = Some(1000)
  /\ Val(last_state).F = Some(1200)

\* Whether the line's command token is cmd: the line starts with cmd, and
\* cmd ends there, at a blank or at a comment.
IsCmd(line, cmd) ==
  /\ StartsWith(line, cmd)
  /\ Len(line) > Len(cmd) => line[Len(cmd) + 1] \in Whitespace \cup {";"}

\* Whether the most recent of the commands on/off among the first n input
\* lines is off (FALSE when there is neither).
LatestIs(n, on, off) ==
  LET hits == {i \in 1..n : IsCmd(lines[i], on) \/ IsCmd(lines[i], off)}
  IN  /\ hits # {}
      /\ IsCmd(lines[CHOOSE i \in hits : \A j \in hits : j <= i], off)

\* C6: both flags start absolute; after any prefix the position flag is
\* relative iff the latest G90/G91 is G91 and the extrusion flag is relative
\* iff the latest M82/M83 is M83; and every Command of the output carries the
\* flags of the prefix up to and including its line, and a prior state with
\* the flags of the prefix before its line.
C6_FlagsFollowLatestModeCommand ==
  /\ last_state # None =>
       /\ Val(last_state).move_is_absolute = ~LatestIs(Len(lines), G90, G91)
       /\ Val(last_state).extrude_is_absolute = ~LatestIs(Len(lines), M82, M83)
  /\ last_state = None =>
       /\ ~LatestIs(Len(lines), G90, G91)
       /\ ~LatestIs(Len(lines), M82, M83)
  /\ \A k \in 1..Len(gcodes) :
       IsCommand(gcodes[k]) =>
         LET g == gcodes[k]
             n == origin[k]
             before == IF g.previous_state = None THEN State_default
                       ELSE Val(g.previous_state)
         IN  /\ g.move_is_absolute = ~LatestIs(n, G90, G91)
             /\ g.extrude_is_absolute = ~LatestIs(n, M82, M83)
             /\ before.move_is_absolute = ~LatestIs(n - 1, G90, G91)
             /\ before.extrude_is_absolute = ~LatestIs(n - 1, M82, M83)

\* C6 witness: after G91 and then M82, a motion command is tracked with the
\* position flag relative and the extrusion flag absolute.
C6_Witness ==
  /\ Len(lines) = 3
  /\ IsCmd(lines[1], G91)
  /\ IsCmd(lines[2], M82)
  /\ TrackedMotion
  /\ ~Val(last_state).move_is_absolute
  /\ Val(last_state).extrude_is_absolute

\* C9: a parameter whose value is empty or not a number becomes a flag
\* parameter with a null value, and the pass never ends in a fatal error.
C9_FlagParameterNeverFatal ==
  /\ pc # "error"
  /\ \A k \in 1..Len(locals.parsed.parameters) :
       LET p == locals.parsed.parameters[k]
       IN  Len(p.name) > 1 => p.value = None

\* ---------------------------------------------------------- the output file

\* The output entries, by index, that came from input line n.
EntriesOf(n) == {k \in 1..Len(gcodes) : origin[k] = n}

\* The output entries are in the order of the input lines they came from.
InInputOrder ==
  \A j, k \in 1..Len(gcodes) : j < k => origin[j] <= origin[k]

\* C11: every empty or whitespace-only input line yields a Command with no
\* command token, and once the file is written the line has exactly one
\* output line, a blank one, at its place among the output of the other lines.
C11_BlankLinePreserved ==
  \A n \in 1..Len(lines) :
    IsBlankLine(lines[n]) =>
      /\ parse_gcode_line(lines[n], None).command = None
      /\ pc = "written" =>
           /\ Cardinality(EntriesOf(n)) = 1
           /\ \A k \in EntriesOf(n) : writefile[k] = << >>
           /\ InInputOrder

ABS_E_adj == << ";", "A", "B", "S", " ", "E", " ", "a", "d", "j", ":" >>

REL_E_adj == << ";", "R", "E", "L", " ", "E", " ", "a", "d", "j", ":" >>

\* An output entry that is a verbose diagnostic line of the given kind.
IsVerboseLine(entry, kind) == ~IsCommand(entry) /\ StartsWith(entry.text, kind)

\* An output entry that is the ;TRAVEL marker.
IsTravelMarker(entry) == ~IsCommand(entry) /\ entry.text = TRAVEL

\* An output Command that went through the compensation: a G1, G2 or G3 (a
\* converted G0 included) with a prior state and a numeric X.
IsCompensated(entry) ==
  /\ IsCommand(entry)
  /\ entry.command \in {Some(G1), Some(G2), Some(G3)}
  /\ entry.previous_state # None
  /\ NumericParam(entry.parameters, << "X" >>) # None

\* C12: with verbose diagnostics on, the two diagnostic lines of a
\* compensated motion command are the two output lines right before that
\* command (";ABS E adj:", then ";REL E adj:", then the command), there are
\* no diagnostic lines anywhere else, none with verbose off, and the file is
\* written in that order.
C12_VerboseImmediatelyBefore ==
  /\ \A k \in 1..Len(gcodes) :
       (verbose /\ IsCompensated(gcodes[k])) =>
         /\ k >= 3
         /\ IsVerboseLine(gcodes[k - 2], ABS_E_adj)
         /\ IsVerboseLine(gcodes[k - 1], REL_E_adj)
         /\ origin[k - 2] = origin[k]
         /\ origin[k - 1] = origin[k]
  /\ \A k \in 1..Len(gcodes) :
       /\ IsVerboseLine(gcodes[k], ABS_E_adj) =>
            /\ verbose
            /\ k + 2 <= Len(gcodes)
            /\ IsCompensated(gcodes[k + 2])
       /\ IsVerboseLine(gcodes[k], REL_E_adj) =>
            /\ verbose
            /\ k + 1 <= Len(gcodes)
            /\ IsCompensated(gcodes[k + 1])
  /\ pc = "written" =>
       /\ Len(writefile) = Len(gcodes)
       /\ \A k \in 1..Len(gcodes) :
            IF IsCommand(gcodes[k])
            THEN ~StartsWith(writefile[k], ABS_E_adj)
                 /\ ~StartsWith(writefile[k], REL_E_adj)
            ELSE writefile[k] = gcodes[k].text

\* C12 witness: a written file in which the diagnostic lines of a compensated
\* command follow the line of another command and precede their own.
C12_Witness ==
  /\ pc = "written"
  /\ verbose
  /\ \E k \in 4..Len(gcodes) :
       /\ IsCompensated(gcodes[k])
       /\ IsCommand(gcodes[k - 3])
       /\ StartsWith(writefile[k - 2], ABS_E_adj)
       /\ StartsWith(writefile[k - 1], REL_E_adj)
       /\ StartsWith(writefile[k], G1)

\* C13: every ;TRAVEL marker is the output line right after the command with
\* the synthesized E that it belongs to.
C13_TravelMarkerAfterCommand ==
  \A k \in 1..Len(gcodes) :
    IsTravelMarker(gcodes[k]) =>
      /\ k > 1
      /\ IsCompensated(gcodes[k - 1])
      /\ origin[k - 1] = origin[k]

\* C14: with removal on, an input line that is a ;WIDTH comment has no output
\* line, and reading it leaves the state handed to the next line and the
\* settling accumulator as they were; with removal off it has exactly one
\* output line, its own text (without the line terminator and the blanks
\* around it, which the tokenizer strips from every line).
C14_WidthCommentDroppedOrKept ==
  /\ \A n \in 1..Len(lines) :
       IsWidthLine(lines[n]) =>
         IF remove_width_comments
         THEN EntriesOf(n) = {}
         ELSE /\ Cardinality(EntriesOf(n)) = 1
              /\ pc = "written" =>
                   \A k \in EntriesOf(n) : writefile[k] = Strip(lines[n])
  /\ ( /\ pc = "reading"
       /\ Len(lines) > 0
       /\ IsWidthLine(lines[Len(lines)])
       /\ remove_width_comments )
     => /\ last_state = locals.parsed.previous_state
        /\ settling_current = locals.settling_before
        /\ locals.outcome = "width"

\* C14 witness: with removal on, a ;WIDTH comment read after a move to X = 10
\* has left the state and the output as they were.
C14_Witness ==
  /\ remove_width_comments
  /\ locals.outcome = "width"
  /\ last_state # None
  /\ Val(last_state).X = Some(10)
  /\ Len(gcodes) >= 1
  /\ EntriesOf(Len(lines)) = {}

\* The parameters other than E, in order.
RECURSIVE WithoutE(_)
WithoutE(parameters) ==
  IF parameters = << >> THEN << >>
  ELSE IF Head(parameters).name = << "E" >> THEN WithoutE(Tail(parameters))
  ELSE << Head(parameters) >> \o WithoutE(Tail(parameters))

\* The numbers of the parameters called name, in order.
RECURSIVE ValuesOf(_, _)
ValuesOf(parameters, name) ==
  IF parameters = << >> THEN << >>
  ELSE IF Head(parameters).name = name
  THEN << Head(parameters).value >> \o ValuesOf(Tail(parameters), name)
  ELSE ValuesOf(Tail(parameters), name)

M221_S100 == << "M", "2", "2", "1", " ", "S", "1", "0", "0" >>

\* C15: with the full-flow override on, an M221 command is appended and
\* written with the single S parameter 100; with the override off it is
\* appended and written as it was read; and a command that is not M221 keeps
\* every parameter other than E as it was read, whatever the override.
C15_FullFlowOverride ==
  /\ locals.outcome = "appended" =>
       IF locals.parsed.command = Some(M221)
       THEN IF force_full_flow
            THEN /\ ValuesOf(LastGcode.parameters, << "S" >>) = << Some(100) >>
                 /\ LastGcode.command = Some(M221)
            ELSE LastGcode = [locals.parsed EXCEPT !.num_line = LastGcode.num_line]
       ELSE WithoutE(LastGcode.parameters) = WithoutE(locals.parsed.parameters)
  /\ pc = "written" =>
       \A k \in 1..Len(gcodes) :
         (IsCommand(gcodes[k]) /\ gcodes[k].command = Some(M221)) =>
           writefile[k] = IF force_full_flow THEN M221_S100
                          ELSE Strip(lines[origin[k]])

\* C15 witness: "M221 S95" was read with the override on and "M221 S100" was
\* written, next to a command with an S parameter of its own.
C15_Witness ==
  /\ pc = "written"
  /\ force_full_flow
  /\ Len(lines) = 2
  /\ lines[1] = Line_M221
  /\ lines[2] = Line_M104
  /\ writefile = << M221_S100, Line_M104 >>

\* ------------------------------------------------- the settling accumulator

\* The accumulator after a move of dx from the value before: towards the
\* bound on a move to the right, towards 0 on a move to the left.
ExpectedSettling(before, dx) ==
  IF dx > 0
  THEN IF before + settling_positive * dx < max_settling_positive
       THEN before + settling_positive * dx ELSE max_settling_positive
  ELSE IF dx < 0
  THEN IF before + settling_negative * dx > 0
       THEN before + settling_negative * dx ELSE 0
  ELSE before

\* The last line was read to its end without an error.
LineDone == locals.outcome \in {"blank", "width", "appended"}

\* C16: for a single line, with a non-negative bound and non-negative rates:
\* when the line is a compensated motion command, the accumulator after it is
\* >= the one before if the move's X delta (the tracked X after the line
\* minus the X of the prior state) is > 0, <= if it is < 0, and equal if it
\* is 0; after any other line it is equal.
C16_SettlingFollowsDirection ==
  (NonNegativeConfig /\ LineDone) =>
    IF locals.compensated
    THEN LET dx == Val(Val(last_state).X) - Val(PriorX)
         IN  /\ dx > 0 => settling_current >= locals.settling_before
             /\ dx < 0 => settling_current <= locals.settling_before
             /\ dx = 0 => settling_current = locals.settling_before
    ELSE settling_current = locals.settling_before

\* Whether the state tracker takes the command of the last line for a motion
\* command.
TrackedAsMotion ==
  \/ locals.parsed.command \in {Some(G1), Some(G2), Some(G3)}
  \/ (locals.parsed.command = Some(G0) /\ use_for_travel_moves)

\* C17: after G90, G91, M82 or M83 the state is the prior state with that one
\* flag set (X, Y, Z, E, F and the other flag as before); after any other
\* command that is no motion command to the tracker (a comment, an opaque
\* line, G0 with travel handling off) the state is the prior state.
C17_NonMotionKeepsState ==
  locals.outcome = "appended" =>
    LET command == locals.parsed.command
        after == Val(last_state)
    IN  IF command = Some(G90)
        THEN after = [PriorState EXCEPT !.move_is_absolute = TRUE]
        ELSE IF command = Some(G91)
        THEN after = [PriorState EXCEPT !.move_is_absolute = FALSE]
        ELSE IF command = Some(M82)
        THEN after = [PriorState EXCEPT !.extrude_is_absolute = TRUE]
        ELSE IF command = Some(M83)
        THEN after = [PriorState EXCEPT !.extrude_is_absolute = FALSE]
        ELSE ~TrackedAsMotion => after = PriorState

\* C17 witness: with travel handling off, "G0 X3 Z1" read in relative
\* position mode after a move to X = 5, Z = 1 has left the state as it was.
C17_Witness ==
  /\ locals.outcome = "appended"
  /\ ~use_for_travel_moves
  /\ locals.parsed.command = Some(G0)
  /\ NumericParam(locals.parsed.parameters, << "X" >>) = Some(3)
  /\ PriorState.X = Some(5)
  /\ ~PriorState.move_is_absolute
  /\ Val(last_state).X = Some(5)
  /\ Val(last_state).Z = Some(1)

\* C18: on a compensated move (x_new is the X the engine read): a travel move
\* with the freeze on leaves the accumulator as it was; every other move
\* (not a travel move, or the freeze off) updates it by the rule of its
\* direction; and the E of a travel move is the adjustment computed with the
\* accumulator so left: rounded when E is synthesized, clamped to the
\* hardlimit and added to e when the move has an E value e >= 0.
C18_FreezeOnTravel ==
  locals.compensated =>
    LET x_new == Val(locals.x_value)
        x_prev == Val(PriorX)
        frozen == locals.travel_move /\ freeze_settle_on_travel
        adjustment == Adjustment(x_new, x_prev, settling_current)
        E == NumericParam(LastGcode.parameters, << "E" >>)
    IN  /\ settling_current
             = IF frozen THEN locals.settling_before
               ELSE ExpectedSettling(locals.settling_before, x_new - x_prev)
        /\ (locals.travel_move /\ locals.e_value = None) =>
             E = Some(RoundDiv(adjustment, ADJ_PER_E))
        /\ (locals.travel_move /\ locals.e_value # None) =>
             LET e == Val(locals.e_value)
                 bound == e * adjustment_hardlimit_factor * ADJ_PER_E
             IN  e >= 0 =>
                   E = Some(RoundDiv(e * ADJ_PER_E + ClampTo(adjustment, bound),
                                     ADJ_PER_E))

\* C18 witness: with the freeze on, a travel move to the left finds a raised
\* accumulator and leaves it raised, where the rule would have lowered it.
C18_Witness ==
  /\ locals.compensated
  /\ freeze_settle_on_travel
  /\ locals.travel_move
  /\ locals.x_change < 0
  /\ locals.settling_before > 0
  /\ settling_current = locals.settling_before
  /\ ExpectedSettling(locals.settling_before, locals.x_change)
       < locals.settling_before

\* The accumulator is outside [0, max_settling_positive].
OutOfBounds == settling_current < 0 \/ settling_current > max_settling_positive

\* The last line was a compensated move on which the accumulator is updated.
QualifyingMove ==
  /\ locals.compensated
  /\ ~locals.travel_move \/ ~freeze_settle_on_travel

\* C19: when the accumulator is out of bounds after the update of a
\* qualifying move, the line is warned about (and only then), the command is
\* appended and the pass goes on, the accumulator is the value of the rule,
\* not brought back into the bounds, and it is the value in the move's
\* adjustment and the one left for the next line; this happens only with a
\* negative rate or a negative bound.
C19_OutOfBoundsWarned ==
  /\ (QualifyingMove /\ OutOfBounds) =>
       /\ locals.warning
       /\ locals.outcome = "appended"
       /\ pc # "error"
       /\ settling_current
            = ExpectedSettling(locals.settling_before, locals.x_change)
       /\ locals.e_adjust_unclamped
            = Adjustment(Val(locals.x_value), Val(PriorX), settling_current)
       /\ ~NonNegativeConfig
  /\ locals.warning => (QualifyingMove /\ OutOfBounds)

\* C19 witness: a move to the right with a negative rate found the
\* accumulator below 0 from the line before, lowered it further and was
\* warned about.
C19_Witness ==
  /\ QualifyingMove
  /\ locals.warning
  /\ locals.settling_before < 0
  /\ settling_current < locals.settling_before
  /\ max_settling_positive >= 0
  /\ locals.x_change > 0

\* C20: the state after the first processed line has 0 on every axis the
\* line does not set; every state handed to a next line has numbers for X,
\* Y, Z and E; and the engine is never entered with an unknown prior X.
C20_AxesAlwaysKnown ==
  /\ last_state # None =>
       \A name \in {<< "X" >>, << "Y" >>, << "Z" >>, << "E" >>} :
         /\ AxisOf(Val(last_state), name) # None
         /\ ( /\ LineDone
              /\ locals.parsed.previous_state = None
              /\ ~(TrackedAsMotion /\ HasParam(locals.parsed.parameters, name)) )
            => AxisOf(Val(last_state), name) = Some(0)
  /\ (locals.x_value # None /\ locals.parsed.previous_state # None) =>
       Val(locals.parsed.previous_state).X # None

\* ------------------------------------------------------- the flow of state

\* The output entries that are Commands, by index.
CommandIndices == {k \in 1..Len(gcodes) : IsCommand(gcodes[k])}

\* The state that results from the k-th output entry's command as it was
\* parsed from its input line (before the loop rewrites E or the token).
StateAsParsed(k) ==
  Gcode_state(mode_update(parse_gcode_line(lines[origin[k]],
                                           gcodes[k].previous_state)))

\* The Command before the k-th entry, 0 when there is none.
PrecedingCommand(k) ==
  LET before == {j \in CommandIndices : j < k}
  IN  IF before = {} THEN 0 ELSE CHOOSE j \in before : \A i \in before : i <= j

\* C21: the prior-state snapshot of every Command of the output is the state
\* that results from the Command before it as parsed (none for the first),
\* whatever E or token those Commands were rewritten to; the state kept for
\* the next line is the one that results from the last Command as parsed,
\* also after blank and ;WIDTH lines were skipped; and the Command of the
\* last line has the snapshot it was parsed with.
C21_StateFlowsForward ==
  /\ \A k \in CommandIndices :
       gcodes[k].previous_state
         = IF PrecedingCommand(k) = 0 THEN None
           ELSE StateAsParsed(PrecedingCommand(k))
  /\ locals.outcome # "error" =>
       last_state
         = IF CommandIndices = {} THEN None
           ELSE StateAsParsed(PrecedingCommand(Len(gcodes) + 1))
  /\ locals.outcome = "appended" =>
       LastGcode.previous_state = locals.parsed.previous_state

\* C21 witness: a Command's E was rewritten (.01 to another value), a line
\* was skipped after it, and the state kept for the next line still has the
\* E it was parsed with.
C21_Witness ==
  /\ locals.outcome \in {"blank", "width"}
  /\ Len(gcodes) = 2
  /\ IsCompensated(gcodes[2])
  /\ NumericParam(gcodes[2].parameters, << "E" >>) # Some(1000)
  /\ NumericParam(gcodes[2].parameters, << "E" >>) # None
  /\ Val(last_state).E = Some(1000)
  /\ gcodes[2].previous_state = StateAsParsed(1)

====
